---- MODULE Spec2Model ----
(***************************************************************************)
(* Model of itertools' MultiProduct (src/adaptors/multi_product.rs): the   *)
(* lazy cartesian product of a run-time number of restartable producers.   *)
(*                                                                         *)
(* A producer of type I (Iterator + Clone) is modelled by the sequence of  *)
(* items it still has to yield; a cyclic producer (std's Cycle over a      *)
(* non-empty sequence) never runs out.  Option<T> is a record with a       *)
(* `some` flag.                                                            *)
(***************************************************************************)
EXTENDS Integers, Sequences, FiniteSets, TLC

\* ------------------------------------------------------------------ bounds
MaxSlots == 3          \* most inputs handed to multi_cartesian_product
MaxLen == 3            \* most items of one input
MaxNoneCalls == 2      \* next calls followed after the first that returns nothing
MaxUnboundedOut == 2   \* tuples followed when some input never runs out
MaxWideOut == 3        \* tuples followed when the product exceeds the usize range

\* usize: width of the target's pointer-sized integer (16 is the narrowest Rust supports)
UsizeBits == 16
UsizeModulus == 2 ^ UsizeBits
UsizeMax == UsizeModulus - 1

\* ------------------------------------------------------------------ Option
None == [some |-> FALSE]
Some(v) == [some |-> TRUE, val |-> v]

\* ------------------------------------------------------- the producer type I
\* I::next: the item yielded (if any) and the producer afterwards.
I_next(it) ==
    IF it.items = <<>>
    THEN [it |-> it, item |-> None]
    ELSE [it |-> [it EXCEPT !.items = IF it.cyc THEN Tail(@) \o <<Head(@)>> ELSE Tail(@)],
          item |-> Some(Head(it.items))]

\* Whether draining the producer terminates.
I_finite(it) == ~it.cyc \/ it.items = <<>>

\* I::count, for a producer that runs out.
I_count(it) == Len(it.items)

\* I::last, for a producer that runs out.
I_last(it) == IF it.items = <<>> THEN None ELSE Some(it.items[Len(it.items)])

\* I::size_hint: exact for a producer that knows its length, Iterator's
\* default (0, None) otherwise, (usize::MAX, None) for a cyclic producer.
I_size_hint(it, exact) ==
    IF ~I_finite(it) THEN <<UsizeMax, None>>
    ELSE IF exact THEN <<Len(it.items), Some(Len(it.items))>>
    ELSE <<0, None>>

\* ------------------------------------------------------------ construction
\* MultiProductIter::new
MultiProductIter_new(iter) == [iter |-> iter, iter_orig |-> iter]

\* multi_cartesian_product
multi_cartesian_product(iters) ==
    Some([iters |-> [i \in 1..Len(iters) |-> MultiProductIter_new(iters[i])],
          cur |-> None])

\* --------------------------------------------------------- MultiProduct::next
\* Lines 117-119: the exhausted live producer is replaced by a clone of the
\* origin and its first item is drawn; `item` is what the unwrap is applied to.
carry_stale(slot) ==
    LET f == I_next(slot.iter)
    IN  [slot |-> [slot EXCEPT !.iter = f.it], item |-> f.item]

carry_no_advance(slot) ==
    [slot |-> [slot EXCEPT !.iter = slot.iter_orig],
     item |-> I_next(slot.iter_orig).item]

carry_advances_origin(slot) ==
    LET f == I_next(slot.iter_orig)
    IN  [slot |-> [slot EXCEPT !.iter = f.it, !.iter_orig = f.it], item |-> f.item]

carry(slot) ==
    LET f == I_next(slot.iter_orig)
    IN  [slot |-> [slot EXCEPT !.iter = f.it], item |-> f.item]

\* Lines 112-121 without the `.rev()`: the scan from the first slot to the last.
RECURSIVE scan_forward(_, _, _, _)
scan_forward(iters, values, k, carried) ==
    IF k > Len(iters)
    THEN [iters |-> iters, values |-> values, found |-> FALSE,
          carried |-> carried, panic |-> FALSE]
    ELSE LET r == I_next(iters[k].iter) IN
         IF r.item.some
         THEN [iters |-> [iters EXCEPT ![k].iter = r.it],
               values |-> [values EXCEPT ![k] = r.item.val],
               found |-> TRUE, carried |-> carried, panic |-> FALSE]
         ELSE LET c == carry(iters[k]) IN
              IF ~c.item.some
              THEN [iters |-> [iters EXCEPT ![k] = c.slot], values |-> values,
                    found |-> FALSE, carried |-> carried + 1, panic |-> TRUE]
              ELSE scan_forward([iters EXCEPT ![k] = c.slot],
                                [values EXCEPT ![k] = c.item.val],
                                k + 1, carried + 1)

scan_no_rev(iters, values, k, carried) == scan_forward(iters, values, 1, carried)

\* Lines 112-121: the scan from the last slot (k = Len(iters)) to the first.
\* `found` tells that a slot yielded (line 115); `panic` that the unwrap of
\* line 119 met None; `carried` counts the slots reset on the way.
RECURSIVE scan(_, _, _, _)
scan(iters, values, k, carried) ==
    IF k = 0
    THEN [iters |-> iters, values |-> values, found |-> FALSE,
          carried |-> carried, panic |-> FALSE]
    ELSE LET r == I_next(iters[k].iter) IN
         IF r.item.some
         THEN [iters |-> [iters EXCEPT ![k].iter = r.it],
               values |-> [values EXCEPT ![k] = r.item.val],
               found |-> TRUE, carried |-> carried, panic |-> FALSE]
         ELSE LET c == carry(iters[k]) IN
              IF ~c.item.some
              THEN [iters |-> [iters EXCEPT ![k] = c.slot], values |-> values,
                    found |-> FALSE, carried |-> carried + 1, panic |-> TRUE]
              ELSE scan([iters EXCEPT ![k] = c.slot],
                        [values EXCEPT ![k] = c.item.val],
                        k - 1, carried + 1)

\* Lines 108-125: next when `cur` is populated.  `panic` names the panic that
\* ends the call, if any: the debug assertion of line 109 (in a build with
\* debug assertions) or the unwrap of line 119.
next_started_unfused(inner, debug_assertions) ==
    LET s == scan(inner.iters, inner.cur.val, Len(inner.iters), 0) IN
    [self |-> Some([iters |-> s.iters, cur |-> Some(s.values)]),
     ret |-> IF s.found THEN Some(s.values) ELSE None,
     carried |-> s.carried, panic |-> IF s.panic THEN "unwrap" ELSE "no"]

next_started_returns_stale(inner, debug_assertions) ==
    LET s == scan(inner.iters, inner.cur.val, Len(inner.iters), 0) IN
    IF s.panic
    THEN [self |-> Some([iters |-> s.iters, cur |-> Some(s.values)]),
          ret |-> None, carried |-> s.carried, panic |-> "unwrap"]
    ELSE IF s.found
    THEN [self |-> Some([iters |-> s.iters, cur |-> Some(s.values)]),
          ret |-> inner.cur, carried |-> s.carried, panic |-> "no"]
    ELSE [self |-> None, ret |-> None, carried |-> s.carried, panic |-> "no"]

next_started_ends_eagerly(inner, debug_assertions) ==
    LET s == scan(inner.iters, inner.cur.val, Len(inner.iters), 0) IN
    IF s.panic
    THEN [self |-> Some([iters |-> s.iters, cur |-> Some(s.values)]),
          ret |-> None, carried |-> s.carried, panic |-> "unwrap"]
    ELSE IF s.found
    THEN [self |-> IF \A j \in 1..Len(s.iters) : s.iters[j].iter.items = <<>>
                   THEN None
                   ELSE Some([iters |-> s.iters, cur |-> Some(s.values)]),
          ret |-> Some(s.values), carried |-> s.carried, panic |-> "no"]
    ELSE [self |-> None, ret |-> None, carried |-> s.carried, panic |-> "no"]

next_started(inner, debug_assertions) ==
    IF debug_assertions /\ Len(inner.iters) = 0
    THEN [self |-> Some(inner), ret |-> None, carried |-> 0, panic |-> "debug_assert"]
    ELSE
    LET s == scan(inner.iters, inner.cur.val, Len(inner.iters), 0) IN
    IF s.panic
    THEN [self |-> Some([iters |-> s.iters, cur |-> Some(s.values)]),
          ret |-> None, carried |-> s.carried, panic |-> "unwrap"]
    ELSE IF s.found
    THEN [self |-> Some([iters |-> s.iters, cur |-> Some(s.values)]),
          ret |-> Some(s.values), carried |-> s.carried, panic |-> "no"]
    ELSE [self |-> None, ret |-> None, carried |-> s.carried, panic |-> "no"]

\* Line 128 with the empty draws dropped instead of ending the collection.
RECURSIVE collect_first_skip(_, _, _)
collect_first_skip(iters, k, acc) ==
    IF k > Len(iters)
    THEN [iters |-> iters, next |-> Some(acc)]
    ELSE LET r == I_next(iters[k].iter) IN
         IF ~r.item.some
         THEN collect_first_skip(iters, k + 1, acc)
         ELSE collect_first_skip([iters EXCEPT ![k].iter = r.it], k + 1,
                                 Append(acc, r.item.val))

collect_first_skips_empty(iters, k, acc) == collect_first_skip(iters, k, acc)

\* Line 128: iters.iter_mut().map(|i| i.iter.next()).collect::<Option<Vec<_>>>()
\* draws from the slots in order and stops at the first that yields nothing.
RECURSIVE collect_first(_, _, _)
collect_first(iters, k, acc) ==
    IF k > Len(iters)
    THEN [iters |-> iters, next |-> Some(acc)]
    ELSE LET r == I_next(iters[k].iter) IN
         IF ~r.item.some
         THEN [iters |-> iters, next |-> None]
         ELSE collect_first([iters EXCEPT ![k].iter = r.it], k + 1,
                            Append(acc, r.item.val))

\* Line 129: the first call ends the product.
first_call_ends_no_empty_check(next, iters) == ~next.some

first_call_ends(next, iters) == ~next.some \/ Len(iters) = 0

\* Lines 127-136: next when `cur` is None.
next_first_ends_silently(inner) ==
    LET c == collect_first(inner.iters, 1, <<>>) IN
    [self |-> IF first_call_ends(c.next, inner.iters)
              THEN None
              ELSE Some([iters |-> c.iters, cur |-> c.next]),
     ret |-> IF first_call_ends(c.next, inner.iters) THEN None ELSE c.next,
     carried |-> 0, panic |-> "no"]

next_first(inner) ==
    LET c == collect_first(inner.iters, 1, <<>>) IN
    [self |-> IF first_call_ends(c.next, inner.iters)
              THEN None
              ELSE Some([iters |-> c.iters, cur |-> c.next]),
     ret |-> c.next, carried |-> 0, panic |-> "no"]

\* Lines 104-138.
next(self, debug_assertions) ==
    IF ~self.some
    THEN [self |-> None, ret |-> None, carried |-> 0, panic |-> "no"]
    ELSE IF self.val.cur.some
    THEN next_started(self.val, debug_assertions)
    ELSE next_first(self.val)

\* -------------------------------------------------------- usize arithmetic
\* usize `+` and `*` of lines 155, 163, 165, with the wraparound of a build
\* without overflow checks.
wrapping_add(a, b) == (a + b) % UsizeModulus

saturating_mul(a, b) ==
    IF a = 0 \/ b = 0 THEN 0
    ELSE IF a > UsizeMax \div b THEN UsizeMax
    ELSE a * b

RECURSIVE wrapping_mul(_, _)
wrapping_mul(a, b) ==
    IF b = 0 THEN 0
    ELSE LET h == wrapping_mul(a, b \div 2)
         IN  (2 * h + (b % 2) * a) % UsizeModulus

\* -------------------------------------------------------- MultiProduct::count
\* Lines 148-158: the product of the origins' lengths, stopping at the first
\* empty origin (try_fold returns None, unwrap_or_default gives 0).
RECURSIVE count_fresh(_, _, _)
count_fresh(iters, k, product) ==
    IF k > Len(iters) THEN product
    ELSE LET c == I_count(iters[k].iter_orig) IN
         IF c = 0 THEN 0
         ELSE count_fresh(iters, k + 1, wrapping_mul(product, c))

\* Lines 161-166: the fold of the general case, slots left to right.
RECURSIVE count_general(_, _, _)
count_general(iters, k, acc) ==
    IF k > Len(iters) THEN acc
    ELSE LET a == IF acc # 0
                  THEN wrapping_mul(acc, I_count(iters[k].iter_orig))
                  ELSE acc
         IN  count_general(iters, k + 1, wrapping_add(a, I_count(iters[k].iter)))

\* Lines 155, 163, 165 in a build with overflow checks: `*` and `+` panic when
\* the result does not fit usize.
RECURSIVE count_fresh_overflows(_, _, _)
count_fresh_overflows(iters, k, product) ==
    IF k > Len(iters) THEN FALSE
    ELSE LET c == I_count(iters[k].iter_orig) IN
         IF c = 0 THEN FALSE
         ELSE IF product * c > UsizeMax THEN TRUE
         ELSE count_fresh_overflows(iters, k + 1, product * c)

RECURSIVE count_general_overflows(_, _, _)
count_general_overflows(iters, k, acc) ==
    IF k > Len(iters) THEN FALSE
    ELSE LET a == IF acc # 0 THEN acc * I_count(iters[k].iter_orig) ELSE acc
             b == a + I_count(iters[k].iter)
         IN  IF a > UsizeMax \/ b > UsizeMax THEN TRUE
             ELSE count_general_overflows(iters, k + 1, b)

count_overflows(self) ==
    /\ self.some
    /\ IF ~self.val.cur.some
       THEN count_fresh_overflows(self.val.iters, 1, 1)
       ELSE count_general_overflows(self.val.iters, 1, 0)

\* Lines 140-170.
count_fresh_only(self) ==
    IF ~self.some THEN 0 ELSE count_fresh(self.val.iters, 1, 1)

count(self) ==
    IF ~self.some THEN 0
    ELSE IF ~self.val.cur.some
    THEN count_fresh(self.val.iters, 1, 1)
    ELSE count_general(self.val.iters, 1, 0)

\* ---------------------------------------------------- MultiProduct::size_hint
\* crate::size_hint::mul and ::add on (lower, Option<upper>) pairs: the lower
\* bound saturates, the upper bound is None when unknown or out of range.
size_hint_mul(a, b) ==
    LET low == IF a[1] = 0 \/ b[1] = 0 THEN 0
               ELSE IF a[1] > UsizeMax \div b[1] THEN UsizeMax
               ELSE a[1] * b[1]
        hi == IF a[2].some /\ b[2].some
              THEN IF a[2].val = 0 \/ b[2].val = 0 THEN Some(0)
                   ELSE IF a[2].val > UsizeMax \div b[2].val THEN None
                   ELSE Some(a[2].val * b[2].val)
              ELSE IF (a[2].some /\ a[2].val = 0) \/ (b[2].some /\ b[2].val = 0)
              THEN Some(0)
              ELSE None
    IN  <<low, hi>>

size_hint_add(a, b) ==
    LET low == IF a[1] > UsizeMax - b[1] THEN UsizeMax ELSE a[1] + b[1]
        hi == IF a[2].some /\ b[2].some
              THEN IF a[2].val > UsizeMax - b[2].val THEN None
                   ELSE Some(a[2].val + b[2].val)
              ELSE None
    IN  <<low, hi>>

\* Lines 177-180: fold((1, Some(1)), size_hint::mul) over the origins' hints.
RECURSIVE size_hint_fresh(_, _, _, _)
size_hint_fresh(iters, k, sh, exact) ==
    IF k > Len(iters) THEN sh
    ELSE size_hint_fresh(iters, k + 1,
                         size_hint_mul(sh, I_size_hint(iters[k].iter_orig, exact)),
                         exact)

\* Lines 182-185: the fold over the tail, seeded with the first live hint.
RECURSIVE size_hint_tail(_, _, _, _)
size_hint_tail(iters, k, sh, exact) ==
    IF k > Len(iters) THEN sh
    ELSE size_hint_tail(iters, k + 1,
                        size_hint_add(size_hint_mul(sh, I_size_hint(iters[k].iter_orig, exact)),
                                      I_size_hint(iters[k].iter, exact)),
                        exact)

\* Lines 172-192.  `unreachable` tells that line 188 was reached.
size_hint_origins_only(self, exact) ==
    IF ~self.some THEN [val |-> <<0, Some(0)>>, unreachable |-> FALSE]
    ELSE [val |-> size_hint_fresh(self.val.iters, 1, <<1, Some(1)>>, exact),
          unreachable |-> FALSE]

size_hint(self, exact) ==
    IF ~self.some THEN [val |-> <<0, Some(0)>>, unreachable |-> FALSE]
    ELSE IF ~self.val.cur.some
    THEN [val |-> size_hint_fresh(self.val.iters, 1, <<1, Some(1)>>, exact),
          unreachable |-> FALSE]
    ELSE IF Len(self.val.iters) > 0
    THEN [val |-> size_hint_tail(self.val.iters, 2,
                                 I_size_hint(self.val.iters[1].iter, exact), exact),
          unreachable |-> FALSE]
    ELSE [val |-> <<0, None>>, unreachable |-> TRUE]

\* --------------------------------------------------------- MultiProduct::last
\* Lines 199-209: each slot's last live item, or its current value when the
\* live producer is drained; `count` is decremented once per drained slot.
RECURSIVE last_started(_, _, _, _, _)
last_started(iters, values, k, acc, cnt) ==
    IF k > Len(iters) THEN [last |-> acc, count |-> cnt]
    ELSE LET l == I_last(iters[k].iter) IN
         IF l.some
         THEN last_started(iters, values, k + 1, Append(acc, l.val), cnt)
         ELSE last_started(iters, values, k + 1, Append(acc, values[k]), cnt - 1)

\* Line 217: iters.into_iter().map(|i| i.iter.last()).collect::<Option<Vec<_>>>()
RECURSIVE last_fresh(_, _, _)
last_fresh(iters, k, acc) ==
    IF k > Len(iters) THEN Some(acc)
    ELSE LET l == I_last(iters[k].iter) IN
         IF ~l.some THEN None
         ELSE last_fresh(iters, k + 1, Append(acc, l.val))

\* Lines 194-219.
last_no_drained_check(self) ==
    IF ~self.some THEN None
    ELSE IF self.val.cur.some
    THEN Some(last_started(self.val.iters, self.val.cur.val, 1, <<>>,
                           Len(self.val.iters)).last)
    ELSE last_fresh(self.val.iters, 1, <<>>)

last(self) ==
    IF ~self.some THEN None
    ELSE IF self.val.cur.some
    THEN LET l == last_started(self.val.iters, self.val.cur.val, 1, <<>>,
                               Len(self.val.iters))
         IN  IF l.count = 0 THEN None ELSE Some(l.last)
    ELSE last_fresh(self.val.iters, 1, <<>>)

\* ------------------------------------------------------------------- state
VARIABLES
    inputs,     \* the producers handed to multi_cartesian_product
    self,       \* MultiProduct.0: Option<MultiProductInner>
    ret,        \* the most recent call and what it returned
    out,        \* the tuples returned by next so far, in order
    nones,      \* how many next calls have returned nothing
    carried,    \* slots reset by the most recent next call
    panicked    \* "no", or the panic that unwound the caller

vars == <<inputs, self, ret, out, nones, carried, panicked>>

\* next only moves and clones items (I::Item: Clone), it never inspects them,
\* so the inputs carry pairwise distinct items: item p of input i.
Item(i, p) == (i - 1) * MaxLen + p
Producer(i, len, cyc) == [items |-> [p \in 1..len |-> Item(i, p)], cyc |-> cyc]
Shapes == {sh \in [len : 0..MaxLen, cyc : BOOLEAN] : sh.cyc => sh.len > 0}
InputLists ==
    UNION {{[i \in 1..n |-> Producer(i, shs[i].len, shs[i].cyc)] : shs \in [1..n -> Shapes]}
           : n \in 0..MaxSlots}

\* `ret` before any call; a call fills in `op` and the field of its return
\* type: `opt` for next and last, `n` for count, `hint` for size_hint.
NoCall == [op |-> "new", opt |-> None, n |-> 0, hint |-> <<0, None>>, exact |-> FALSE]

AllFinite(ins) == \A i \in 1..Len(ins) : I_finite(ins[i])
SomeEmpty(ins) == \E i \in 1..Len(ins) : ins[i].items = <<>>

Init ==
    /\ inputs \in InputLists
    /\ self = multi_cartesian_product(inputs)
    /\ ret = NoCall
    /\ out = <<>>
    /\ nones = 0
    /\ carried = 0
    /\ panicked = "no"

\* it.next(), in a build with or without debug assertions.
CallNext ==
    /\ panicked = "no"
    /\ nones < MaxNoneCalls
    /\ AllFinite(inputs) \/ Len(out) < MaxUnboundedOut
    /\ \E debug_assertions \in BOOLEAN :
         LET r == next(self, debug_assertions) IN
         /\ self' = r.self
         /\ ret' = [NoCall EXCEPT !.op = "next", !.opt = r.ret]
         /\ out' = IF r.ret.some THEN Append(out, r.ret.val) ELSE out
         /\ nones' = IF r.ret.some \/ r.panic # "no" THEN nones ELSE nones + 1
         /\ carried' = r.carried
         /\ panicked' = r.panic
    /\ UNCHANGED inputs

\* it.clone().count(), in a build with or without overflow checks: count takes
\* the product by value, the caller keeps `it`.
CallCount ==
    /\ panicked = "no"
    /\ AllFinite(inputs)
    /\ \E overflow_checks \in BOOLEAN :
         IF overflow_checks /\ count_overflows(self)
         THEN /\ ret' = [NoCall EXCEPT !.op = "panic"]
              /\ panicked' = "overflow"
         ELSE /\ ret' = [NoCall EXCEPT !.op = "count", !.n = count(self)]
              /\ panicked' = "no"
    /\ UNCHANGED <<inputs, self, out, nones, carried>>

\* it.clone().last()
CallLast ==
    /\ panicked = "no"
    /\ AllFinite(inputs)
    /\ ret' = [NoCall EXCEPT !.op = "last", !.opt = last(self)]
    /\ UNCHANGED <<inputs, self, out, nones, carried, panicked>>

\* it.size_hint(), the producers reporting exact hints or Iterator's default.
CallSizeHint ==
    /\ panicked = "no"
    /\ \E exact \in BOOLEAN :
         LET r == size_hint(self, exact) IN
         /\ ret' = [NoCall EXCEPT !.op = "size_hint", !.exact = exact, !.hint = r.val]
         /\ panicked' = IF r.unreachable THEN "unreachable" ELSE "no"
    /\ UNCHANGED <<inputs, self, out, nones, carried>>

Next == CallNext \/ CallCount \/ CallLast \/ CallSizeHint

Spec == Init /\ [][Next]_vars

\* ---------------------------------------------- products beyond usize
\* Two inputs of HalfWord items have 2^UsizeBits tuples.
HalfWord == 2 ^ (UsizeBits \div 2)
WideProducer(i, len) ==
    [items |-> [p \in 1..len |-> (i - 1) * (HalfWord + 1) + p], cyc |-> FALSE]
WideLens == {HalfWord, HalfWord + 1}
WideInputLists ==
    {<<WideProducer(1, a), WideProducer(2, b)>> : a \in WideLens, b \in WideLens}
    \cup {<<WideProducer(1, a[1]), WideProducer(2, a[2]), WideProducer(3, c)>> :
            a \in WideLens \X WideLens, c \in 0..MaxLen}

IsWide(ins) == \E i \in 1..Len(ins) : Len(ins[i].items) > MaxLen

\* The inputs of Spec and, besides, inputs whose product does not fit usize.
WideInit ==
    /\ inputs \in InputLists \cup WideInputLists
    /\ self = multi_cartesian_product(inputs)
    /\ ret = NoCall
    /\ out = <<>>
    /\ nones = 0
    /\ carried = 0
    /\ panicked = "no"

\* it.next(); a product beyond usize is followed for its first tuples only.
CallNextWide ==
    /\ ~IsWide(inputs) \/ Len(out) < MaxWideOut
    /\ CallNext

WideNext == CallNextWide \/ CallCount \/ CallLast \/ CallSizeHint

WideSpec == WideInit /\ [][WideNext]_vars

\* repeated next calls are made for as long as the caller may make one
FairSpec == Spec /\ WF_vars(CallNext)

\* ------------------------------------------------- reference definitions
\* The sizes s1..sn of finite inputs and the product of the sizes from slot i on.
Sizes(ins) == [i \in 1..Len(ins) |-> Len(ins[i].items)]

RECURSIVE ProdFrom(_, _)
ProdFrom(sz, i) == IF i > Len(sz) THEN 1 ELSE sz[i] * ProdFrom(sz, i + 1)

Total(ins) == ProdFrom(Sizes(ins), 1)

\* Mixed-radix counting: digit i of k, the last slot varying fastest.
Digit(ins, k, i) == (k \div ProdFrom(Sizes(ins), i + 1)) % Sizes(ins)[i]

KthTuple(ins, k) == [i \in 1..Len(ins) |-> ins[i].items[Digit(ins, k, i) + 1]]

Expected(ins) == [k \in 1..Total(ins) |-> KthTuple(ins, k - 1)]

FinalTuple(ins) == [i \in 1..Len(ins) |-> ins[i].items[Len(ins[i].items)]]

\* How many tuples repeated next calls return from a state, up to the first
\* call that returns nothing (finite inputs).
RECURSIVE Remaining(_)
Remaining(st) ==
    LET r == next(st, TRUE) IN
    IF r.ret.some THEN 1 + Remaining(r.self) ELSE 0

\* The last of those tuples, `prev` if there is none.
RECURSIVE LastFrom(_, _)
LastFrom(st, prev) ==
    LET r == next(st, TRUE) IN
    IF r.ret.some THEN LastFrom(r.self, r.ret) ELSE prev

LastByNext(st) == LastFrom(st, None)

Started == self.some /\ self.val.cur.some
Fresh == self.some /\ ~self.val.cur.some
Ended == ~self.some
Calls == Len(out) + nones

\* ------------------------------------------------------------------ claims
\* C1: for n >= 1 finite non-empty inputs the tuples returned by next, up to
\* the first call that returns nothing, are the tuples of the cartesian
\* product, each once, in mixed-radix order with the last input fastest.
C1_MixedRadixOrder ==
    (Len(inputs) >= 1 /\ AllFinite(inputs) /\ ~SomeEmpty(inputs)) =>
        /\ Len(out) <= Total(inputs)
        /\ \A k \in 1..Len(out) : out[k] = KthTuple(inputs, k - 1)
        /\ Cardinality({out[k] : k \in 1..Len(out)}) = Len(out)
        /\ nones >= 1 => out = Expected(inputs)

C1_Witness ==
    /\ Len(inputs) = 2 /\ AllFinite(inputs)
    /\ Len(inputs[1].items) = 2 /\ Len(inputs[2].items) = 2
    /\ nones >= 1
    /\ out = << <<Item(1, 1), Item(2, 1)>>, <<Item(1, 1), Item(2, 2)>>,
                <<Item(1, 2), Item(2, 1)>>, <<Item(1, 2), Item(2, 2)>> >>

\* C2: with n >= 1 inputs of sizes s1..sn, next returns s1*...*sn tuples
\* before its first empty return; with an empty input the first call returns
\* nothing, and the first call returns nothing only if some input is empty.
C2_OutputCount ==
    /\ (Len(inputs) >= 1 /\ AllFinite(inputs)) =>
          /\ Len(out) <= Total(inputs)
          /\ nones >= 1 => Len(out) = Total(inputs)
    /\ SomeEmpty(inputs) => (out = <<>> /\ panicked = "no")
    /\ (Len(inputs) >= 1 /\ nones >= 1 /\ out = <<>>) => SomeEmpty(inputs)

C2_Witness ==
    /\ Len(inputs) = 3 /\ AllFinite(inputs) /\ nones >= 1
    /\ Len(out) = 12 /\ carried = 3

\* C3: with zero inputs the first next call returns the empty tuple and
\* every later call returns nothing.
C3_ZeroInputs ==
    (Len(inputs) = 0 /\ Calls >= 1) => (out = << <<>> >> /\ nones = Calls - 1)

C3_Witness == Len(inputs) = 0 /\ out = << <<>> >> /\ nones >= 2

\* C4: once a next call has returned nothing the state is absent and stays
\* absent, and no later call returns a tuple.
C4_Fused ==
    [][nones >= 1 => (Ended /\ ~self'.some /\ out' = out /\ nones' >= nones)]_vars

C4_Witness == nones >= 2 /\ Len(out) >= 2 /\ ret.op = "next" /\ ~ret.opt.some

\* The usize range covers the count computation: the product of the sizes of
\* the non-empty inputs (line 155 multiplies up to the first empty origin).
RECURSIVE ProdNonEmpty(_, _)
ProdNonEmpty(sz, i) ==
    IF i > Len(sz) THEN 1
    ELSE (IF sz[i] = 0 THEN 1 ELSE sz[i]) * ProdNonEmpty(sz, i + 1)

CountInRange(ins) == ProdNonEmpty(Sizes(ins), 1) < UsizeModulus

\* C5 as stated: over finite inputs of any size count returns the number of
\* tuples still to come, the product of the sizes when not started.
C5_CountIsRemainingAnySize ==
    (ret.op = "count" /\ AllFinite(inputs)) =>
        /\ ret.n = Total(inputs) - Len(out)
        /\ Fresh => ret.n = Total(inputs)

\* C5 amended: over finite inputs whose product of (non-empty) sizes is below
\* 2^UsizeBits count returns, in every reachable state, the number of tuples
\* that further next calls still return: the product of the sizes when not
\* started, 0 once ended.
C5_CountIsRemaining ==
    /\ CountInRange(inputs) => panicked # "overflow"
    /\ (ret.op = "count" /\ AllFinite(inputs) /\ CountInRange(inputs)) =>
        /\ ret.n = Remaining(self)
        /\ ret.n = Total(inputs) - Len(out)
        /\ Fresh => ret.n = Total(inputs)
        /\ Ended => ret.n = 0

C5_Witness ==
    /\ ret.op = "count" /\ Started /\ Len(inputs) = 3
    /\ Len(out) = 5 /\ ret.n = 7

\* C6: over finite inputs last returns, in every reachable state, the last
\* tuple that further next calls return: the tuple of the inputs' last items
\* while it is still to come, nothing when no tuple remains.
C6_LastIsFinalTuple ==
    (ret.op = "last" /\ AllFinite(inputs)) =>
        /\ ret.opt = LastByNext(self)
        /\ ret.opt = IF Len(out) < Total(inputs)
                     THEN Some(FinalTuple(inputs))
                     ELSE None

C6_Witness ==
    /\ ret.op = "last" /\ Started /\ Len(inputs) = 3 /\ Len(out) = 5
    /\ ret.opt = Some(FinalTuple(inputs))
    /\ \E i \in 1..3 : self.val.iters[i].iter.items = <<>>

\* C7: when every producer reports an exact hint, size_hint returns (r, r)
\* in every reachable state, r the number of tuples still to come.
C7_SizeHintExact ==
    (ret.op = "size_hint" /\ ret.exact /\ AllFinite(inputs)) =>
        /\ LET r == Remaining(self) IN ret.hint = <<r, Some(r)>>
        /\ Fresh => ret.hint = <<Total(inputs), Some(Total(inputs))>>
        /\ Ended => ret.hint = <<0, Some(0)>>
        /\ panicked = "no"

C7_Witness ==
    /\ ret.op = "size_hint" /\ ret.exact /\ Started /\ Len(inputs) = 3
    /\ Len(out) = 5 /\ ret.hint = <<7, Some(7)>>

\* C8 as stated: next returns nothing at some point only if every input is
\* finite.
C8_FiniteOnlyIfAllFinite == nones >= 1 => AllFinite(inputs)

\* C8 amended: repeated next calls come to return nothing if and only if
\* every input is finite or some input is empty; with n >= 1 finite inputs
\* that happens after exactly s1*...*sn tuples.  In every reachable state the
\* coming next call returns a tuple exactly while tuples of the product are
\* outstanding: never with an empty input, always with no empty input and an
\* unbounded one.
C8_Termination ==
    LET r == next(self, TRUE) IN
    /\ r.panic = "no" /\ panicked = "no"
    /\ SomeEmpty(inputs) => (~r.ret.some /\ out = <<>>)
    /\ AllFinite(inputs) =>
          /\ Len(out) <= Total(inputs)
          /\ r.ret.some <=> Len(out) < Total(inputs)
          /\ (nones >= 1 /\ Len(inputs) >= 1) => Len(out) = Total(inputs)
    /\ (~AllFinite(inputs) /\ ~SomeEmpty(inputs)) => (r.ret.some /\ nones = 0)
    /\ nones >= 1 => (AllFinite(inputs) \/ SomeEmpty(inputs))

\* C8 amended, the finite direction as a liveness property of FairSpec.
C8_EventuallyNothing ==
    (AllFinite(inputs) \/ SomeEmpty(inputs)) ~> (nones >= 1)

C8_Witness ==
    /\ nones >= 1 /\ ~AllFinite(inputs) /\ SomeEmpty(inputs) /\ out = <<>>

\* C9 as stated: with zero slots the state is still present after the call
\* that returned the empty tuple.
C9_StatePresentAfterEmptyTuple ==
    (Len(inputs) = 0 /\ Len(out) = 1 /\ nones = 0) => self.some

\* C9 amended: with zero slots the call that returns the empty tuple also
\* moves the product to ended; the following call returns nothing.
C9_EndedWithEmptyTuple ==
    (Len(inputs) = 0 /\ Calls >= 1) => (Ended /\ out = << <<>> >>)

C9_Witness ==
    /\ Len(inputs) = 0 /\ out = << <<>> >> /\ nones = 0 /\ Ended
    /\ ret.op = "next" /\ ret.opt = Some(<<>>)

\* C10: the unwrap of the carry step never meets None: no slot of a started
\* product has an empty origin.
C10_CarryNeverFails ==
    /\ panicked # "unwrap"
    /\ Started => \A i \in 1..Len(self.val.iters) :
                      self.val.iters[i].iter_orig.items # <<>>

C10_Witness ==
    /\ ret.op = "next" /\ ret.opt.some /\ carried = 2 /\ Started

\* C11: whenever `cur` is populated there is at least one slot: the debug
\* assertion of line 109 holds and line 188 of size_hint is never reached.
C11_StartedHasSlots ==
    /\ Started => Len(self.val.iters) >= 1
    /\ panicked \notin {"debug_assert", "unreachable"}
    /\ next(self, TRUE).panic # "debug_assert"
    /\ \A exact \in BOOLEAN : ~size_hint(self, exact).unreachable

C11_Witness ==
    /\ Started /\ ret.op = "size_hint" /\ Len(out) >= 2 /\ carried >= 1

\* C12: while not ended the product has one slot per input given at
\* construction; `cur`, once populated, has one item per slot, item i taken
\* from input i; every tuple returned has one item per slot.
C12_SlotCountFixed ==
    /\ self.some => Len(self.val.iters) = Len(inputs)
    /\ Started =>
          /\ Len(self.val.cur.val) = Len(self.val.iters)
          /\ \A i \in 1..Len(inputs) :
                \E p \in 1..Len(inputs[i].items) :
                    self.val.cur.val[i] = inputs[i].items[p]
    /\ (ret.op = "next" /\ ret.opt.some) => Len(ret.opt.val) = Len(inputs)
    /\ out # <<>> => Len(out[Len(out)]) = Len(inputs)

C12_Witness ==
    /\ Started /\ Len(inputs) = 3 /\ Len(self.val.cur.val) = 3
    /\ ret.op = "next" /\ ret.opt.some /\ Len(out) = 4

\* C13: a next call on a started product that returns a tuple advances slot
\* k, the rightmost slot whose live producer is not exhausted: the slots left
\* of k keep their item and live producer, `cur[k]` becomes slot k's next
\* item, and every slot right of k is reset to its origin advanced by one,
\* with `cur` holding the origin's first item.
C13_AdvanceFrame ==
    [][(Started /\ Len(out') = Len(out) + 1) =>
        LET old == self.val
            new == self'.val
            n == Len(old.iters)
            live == {j \in 1..n : old.iters[j].iter.items # <<>>}
            k == CHOOSE j \in live : \A h \in live : h <= j
        IN  /\ live # {}
            /\ self'.some /\ new.cur.some
            /\ \A j \in 1..(k - 1) :
                  /\ new.cur.val[j] = old.cur.val[j]
                  /\ new.iters[j] = old.iters[j]
            /\ new.cur.val[k] = Head(old.iters[k].iter.items)
            /\ new.iters[k].iter = I_next(old.iters[k].iter).it
            /\ new.iters[k].iter_orig = old.iters[k].iter_orig
            /\ \A j \in (k + 1)..n :
                  /\ new.iters[j].iter = I_next(old.iters[j].iter_orig).it
                  /\ new.cur.val[j] = Head(old.iters[j].iter_orig.items)
                  /\ new.iters[j].iter_orig = old.iters[j].iter_orig
    ]_vars

C13_Witness ==
    /\ Started /\ ret.op = "next" /\ ret.opt.some /\ Len(inputs) = 3
    /\ carried = 1 /\ Len(out) >= 3
    /\ self.val.iters[3].iter.items # <<>>

\* C14: next never advances an origin: while not ended every slot's origin
\* is the input as given at construction, positioned at its start.
C14_OriginUntouched ==
    self.some => \A i \in 1..Len(self.val.iters) :
                     self.val.iters[i].iter_orig = inputs[i]

C14_Witness ==
    /\ Started /\ ret.op = "next" /\ carried = 2 /\ Len(out) >= 5
    /\ \A i \in 1..Len(inputs) : self.val.iters[i].iter_orig = inputs[i]

\* C16: in a started state `cur[i]` is the item most recently drawn from slot
\* i's live producer: when it is item p of input i the live producer holds
\* the size_i - p items after it; and the tuple a next call returned is `cur`
\* as stored after the call.
C16_CurIsLastDrawn ==
    Started =>
        /\ \A i \in 1..Len(inputs) :
              LET items == inputs[i].items
                  live == self.val.iters[i].iter.items
              IN  IF I_finite(inputs[i])
                  THEN \E p \in 1..Len(items) :
                          /\ self.val.cur.val[i] = items[p]
                          /\ Len(live) = Len(items) - p
                          /\ live = SubSeq(items, p + 1, Len(items))
                  ELSE live[Len(live)] = self.val.cur.val[i]
        /\ ret.op = "next" => ret.opt = self.val.cur

C16_Witness ==
    /\ Started /\ ret.op = "next" /\ Len(inputs) = 3 /\ AllFinite(inputs)
    /\ Len(self.val.iters[1].iter.items) = 2
    /\ Len(self.val.iters[2].iter.items) = 1
    /\ self.val.iters[3].iter.items = <<>>

AllDrained(inner) == \A j \in 1..Len(inner.iters) : inner.iters[j].iter.items = <<>>

\* C18: with n >= 1 slots the product becomes ended only in a next call
\* that returns nothing; a call that returns a tuple leaves it started, so
\* after the final tuple it is started with every live producer drained, and
\* the call after that carries every slot, returns nothing and drops the state.
C18_EndedOnlyByEmptyReturn ==
    [][Len(inputs) >= 1 =>
        /\ (self.some /\ ~self'.some) =>
              /\ ret'.op = "next" /\ ~ret'.opt.some
              /\ out' = out /\ nones' = nones + 1
        /\ Len(out') > Len(out) => (self'.some /\ self'.val.cur.some)
        /\ (AllFinite(inputs) /\ Len(out') > Len(out) /\ Len(out') = Total(inputs))
              => AllDrained(self'.val)
        /\ (Started /\ AllDrained(self.val) /\ Len(out') + nones' # Len(out) + nones) =>
              /\ ~self'.some /\ ~ret'.opt.some
              /\ carried' = Len(inputs)
        /\ (Started /\ ~self'.some) => (AllDrained(self.val) /\ carried' = Len(inputs))
    ]_vars

C18_Witness ==
    /\ Started /\ AllFinite(inputs) /\ Len(inputs) = 3 /\ AllDrained(self.val)
    /\ Len(out) = Total(inputs) /\ Len(out) >= 8 /\ nones = 0

\* C15: count multiplies and adds in usize without a guard: with usize
\* arithmetic that wraps around (a build without overflow checks) count
\* returns, in every reachable state, the number of tuples still to come
\* modulo 2^UsizeBits, hence that number itself when it is below 2^UsizeBits,
\* as when an empty origin follows origins whose product is beyond
\* 2^UsizeBits.
C15_CountWraps ==
    AllFinite(inputs) =>
        LET remaining == Total(inputs) - Len(out) IN
        /\ count(self) = remaining % UsizeModulus
        /\ ret.op = "count" =>
            /\ ret.n = remaining % UsizeModulus
            /\ remaining < UsizeModulus => ret.n = remaining
            /\ (Fresh /\ SomeEmpty(inputs)) => ret.n = 0

C15_Witness ==
    /\ ret.op = "count" /\ Fresh /\ Len(inputs) = 3 /\ ret.n = 0
    /\ Len(inputs[1].items) * Len(inputs[2].items) > UsizeModulus
    /\ inputs[3].items = <<>>

C15_WitnessWrapped ==
    /\ ret.op = "count" /\ Started /\ Len(out) = 2
    /\ Total(inputs) - Len(out) >= UsizeModulus
    /\ ret.n = (Total(inputs) - Len(out)) - UsizeModulus

\* C17 as stated: over finite inputs of any size, next would return nothing
\* if and only if count returns 0, if and only if last returns nothing.
C17_QueriesAgree ==
    AllFinite(inputs) =>
        LET nothing == ~next(self, TRUE).ret.some IN
        /\ ret.op = "count" => (ret.n = 0 <=> nothing)
        /\ ret.op = "last" => (~ret.opt.some <=> nothing)

\* C17 amended: over finite inputs next would return nothing if and only if
\* last returns nothing, and, when the product of the (non-empty) sizes is
\* below 2^UsizeBits, if and only if count returns 0.
C17_QueriesAgreeInRange ==
    AllFinite(inputs) =>
        LET nothing == ~next(self, TRUE).ret.some IN
        /\ (ret.op = "count" /\ CountInRange(inputs)) => (ret.n = 0 <=> nothing)
        /\ ret.op = "last" => (~ret.opt.some <=> nothing)
        /\ nothing <=> ~last(self).some
        /\ CountInRange(inputs) => (nothing <=> count(self) = 0)

C17_Witness ==
    /\ Started /\ AllDrained(self.val) /\ nones = 0 /\ Len(out) >= 4
    /\ ret.op = "count" /\ ret.n = 0
    /\ ~last(self).some /\ ~next(self, TRUE).ret.some
====
